---- MODULE Spec2Model ----
(***************************************************************************)
(* A model of the fynesse template's access and assess modules:           *)
(*   - assess.get_feature_vector (src/fynesse/assess.py:104-168)           *)
(*   - access.data and assess.data (access.py:66-130, assess.py:30-102)    *)
(*   - access.plot_city_map and access.plot_city_map_with_points           *)
(*     (access.py:133-310)                                                 *)
(* Python's Optional values are sequences of length at most one: <<>> is   *)
(* None (or a null cell), <<v>> is the value v.  A dict is a function      *)
(* whose DOMAIN is its key set.  Degrees are integers in units of          *)
(* 1/(2*111) degree, so that box_size_km/111/2 is exact.                   *)
(***************************************************************************)
EXTENDS Integers, Sequences, FiniteSets, TLC

VARIABLES
    pc,          \* position of the running call
    args,        \* [latitude, longitude, box_size_km, features] of the call
    bbox,        \* (west, south, east, north)
    tags,        \* dict handed to the provider
    poi_counts,  \* dict of counts, the value returned
    pois_df,     \* the provider's table, once fetched
    poi_types,   \* binding of the module global poi_types
    idx,         \* next element of the counting loop
    queries,     \* provider queries issued by the running call
    failedAt,    \* where the try block raised: "none", "query", "name", "loop"
    written,     \* composite keys assigned by the counting loop
    outcome,     \* "none", "returned" or "propagated"
    dpc,         \* position in the data-loading chain
    dentry,      \* the function the caller entered: "access" or "assess"
    csv,         \* what pd.read_csv met: an error kind or a frame
    access_ret,  \* return value of access.data()
    assess_ret,  \* return value of assess.data()
    dfailed,     \* whether the assessment step raised
    dprop,       \* whether an exception left the data chain
    ppc,         \* position in the plotting function
    pfn,         \* which plotting function runs
    pargs,       \* its arguments
    pbbox,       \* its bounding box
    pstep,       \* index of the next plotting step
    pfig,        \* the figure object, once created
    praised,     \* whether a step raised
    pret         \* the value returned

fvVars == <<pc, args, bbox, tags, poi_counts, pois_df, poi_types, idx,
            queries, failedAt, written, outcome>>
dataVars == <<dpc, dentry, csv, access_ret, assess_ret, dfailed, dprop>>
plotVars == <<ppc, pfn, pargs, pbbox, pstep, pfig, praised, pret>>
vars == <<fvVars, dataVars, plotVars>>

-----------------------------------------------------------------------------
(* Bounds and input universes *)

MaxLen == 2          \* longest features request
MaxPoi == 2          \* longest list bound to the global poi_types

None == <<>>
Some(v) == <<v>>

\* (key, value) pairs a request is drawn from
Pairs ==
    { <<"amenity", None>>, <<"amenity", Some("school")>>,
      <<"amenity", Some("")>>, <<"shop", Some("bakery")>>,
      <<"amenity:school", None>> }

RECURSIVE SeqsUpTo(_, _)
SeqsUpTo(S, n) ==
    IF n = 0 THEN { <<>> }
    ELSE LET shorter == SeqsUpTo(S, n - 1)
         IN  shorter \cup { Append(s, p) : s \in shorter, p \in S }

Requests == SeqsUpTo(Pairs, MaxLen)

\* the features argument: None (the default) or a request
FeatureArgs == { None } \cup { Some(r) : r \in Requests }

\* (latitude, longitude, box_size_km) of a call
CallPoints == { <<0, 37, 2>>, <<-1, 36, 4>> }

\* the module global poi_types: unbound, or bound to a list of pairs
PoiTypesBindings == { None } \cup { Some(r) : r \in SeqsUpTo(Pairs, MaxPoi) }

Row1(c, v) == [k \in {c} |-> v]
Row2(a, s) == [k \in {"amenity", "shop"} |-> IF k = "amenity" THEN a ELSE s]

\* tables the provider may answer with
EmptyTable == [columns |-> {}, rows |-> <<>>]
ScenarioTable ==
    [columns |-> {"amenity"},
     rows |-> << Row1("amenity", Some("school")), Row1("amenity", Some("cafe")),
                 Row1("amenity", Some("school")), Row1("amenity", Some("cafe")),
                 Row1("amenity", Some("cafe")) >>]
MixedTable ==
    [columns |-> {"amenity", "shop"},
     rows |-> << Row2(Some("school"), None), Row2(None, Some("bakery")),
                 Row2(Some("cafe"), Some("bakery")) >>]
ColonTable ==
    [columns |-> {"amenity:school"},
     rows |-> << Row1("amenity:school", Some("yes")) >>]
ProviderTables == { EmptyTable, ScenarioTable, MixedTable, ColonTable }

-----------------------------------------------------------------------------
(* assess.get_feature_vector *)

KmPerDegree == 111
DegUnits == 2 * KmPerDegree

\* the box laid out as (north, south, east, west), the order older
\* releases of the provider's client took
BoundingBoxNSEW(latitude, longitude, box_size_km) ==
    LET north == latitude * DegUnits + box_size_km
        south == latitude * DegUnits - box_size_km
        west  == longitude * DegUnits - box_size_km
        east  == longitude * DegUnits + box_size_km
    IN  <<north, south, east, west>>

\* bbox = (west, south, east, north), in units of 1/DegUnits degree
BoundingBox(latitude, longitude, box_size_km) ==
    LET north == latitude * DegUnits + box_size_km
        south == latitude * DegUnits - box_size_km
        west  == longitude * DegUnits - box_size_km
        east  == longitude * DegUnits + box_size_km
    IN  <<west, south, east, north>>

\* Python truthiness of an Optional[str]: None and "" are falsy
Truthy(value) == value # None /\ value # Some("")

\* f"{key}:{value}" if value else key
CompositeKey(key, value) ==
    IF Truthy(value) THEN key \o ":" \o value[1] ELSE key

\* {f"{key}:{value}" if value else key: x for key, value in features}
DictOver(features, x) ==
    [k \in { CompositeKey(features[i][1], features[i][2]) :
                 i \in 1..Len(features) } |-> x]

BuildTags(features) == DictOver(features, TRUE)
BuildCounts(features) == DictOver(features, 0)

\* d[k] = v
DictSet(d, k, v) ==
    [j \in DOMAIN d \cup {k} |-> IF j = k THEN v ELSE d[j]]

\* (pois_df[key] == value).sum()
CountEqual(df, key, value) ==
    Cardinality({ i \in 1..Len(df.rows) : df.rows[i][key] = value })

\* pois_df[key].notnull().sum()
CountNotNull(df, key) ==
    Cardinality({ i \in 1..Len(df.rows) : df.rows[i][key] # None })

\* one pass of the loop body for (key, value)
CountInto(counts, df, key, value) ==
    IF key \in df.columns
    THEN IF Truthy(value)
         THEN DictSet(counts, CompositeKey(key, value), CountEqual(df, key, value))
         ELSE DictSet(counts, key, CountNotNull(df, key))
    ELSE counts

\* the composite key the loop body assigns for (key, value), if any
WrittenBy(df, key, value) ==
    IF key \in df.columns THEN { CompositeKey(key, value) } ELSE {}

\* the other two subsystems stay where they are
FvOnly == UNCHANGED <<dataVars, plotVars>>

FvInit ==
    /\ pc = "idle"
    /\ args = <<0, 0, 0, None>>
    /\ bbox = <<0, 0, 0, 0>>
    /\ tags = <<>>
    /\ poi_counts = <<>>
    /\ pois_df = None
    /\ poi_types \in PoiTypesBindings
    /\ idx = 0
    /\ queries = <<>>
    /\ failedAt = "none"
    /\ written = {}
    /\ outcome = "none"

\* lines 138-153: the bounding box and the two dict comprehensions, which
\* stand outside the try block; iterating features=None raises TypeError
Call(p, f) ==
    /\ pc = "idle"
    /\ args' = <<p[1], p[2], p[3], f>>
    /\ bbox' = BoundingBox(p[1], p[2], p[3])
    /\ pois_df' = None
    /\ idx' = 0
    /\ queries' = <<>>
    /\ failedAt' = "none"
    /\ written' = {}
    /\ IF f = None
       THEN /\ tags' = <<>>
            /\ poi_counts' = <<>>
            /\ outcome' = "propagated"
            /\ pc' = "done"
       ELSE /\ tags' = BuildTags(f[1])
            /\ poi_counts' = BuildCounts(f[1])
            /\ outcome' = "none"
            /\ pc' = "try"
    /\ UNCHANGED poi_types
    /\ FvOnly

\* what one evaluation of ox.features_from_bbox(bbox, tags) sends
IssueQuery(q, box, t) == Append(q, [bbox |-> box, tags |-> t])

\* lines 155-156: the provider answers with a table
QueryOk(t) ==
    /\ pc = "try"
    /\ queries' = IssueQuery(queries, bbox, tags)
    /\ pois_df' = Some(t)
    /\ pc' = "lookup"
    /\ UNCHANGED <<args, bbox, tags, poi_counts, poi_types, idx, failedAt,
                   written, outcome>>
    /\ FvOnly

\* lines 155, 165-166: the provider raises, the bare except swallows it
QueryRaise ==
    /\ pc = "try"
    /\ queries' = IssueQuery(queries, bbox, tags)
    /\ failedAt' = "query"
    /\ pc' = "ret"
    /\ UNCHANGED <<args, bbox, tags, poi_counts, pois_df, poi_types, idx,
                   written, outcome>>
    /\ FvOnly

\* line 158: the loop evaluates the global name poi_types; NameError when
\* the module has no such name
Lookup ==
    /\ pc = "lookup"
    /\ IF poi_types = None
       THEN /\ failedAt' = "name"
            /\ pc' = "ret"
            /\ idx' = idx
       ELSE /\ failedAt' = failedAt
            /\ pc' = "loop"
            /\ idx' = 1
    /\ UNCHANGED <<args, bbox, tags, poi_counts, pois_df, poi_types, queries,
                   written, outcome>>
    /\ FvOnly

\* lines 158-163: one iteration of the counting loop
LoopIter ==
    /\ pc = "loop"
    /\ idx <= Len(poi_types[1])
    /\ LET key == poi_types[1][idx][1]
           value == poi_types[1][idx][2]
       IN  /\ poi_counts' = CountInto(poi_counts, pois_df[1], key, value)
           /\ written' = written \cup WrittenBy(pois_df[1], key, value)
    /\ idx' = idx + 1
    /\ UNCHANGED <<pc, args, bbox, tags, pois_df, poi_types, queries,
                   failedAt, outcome>>
    /\ FvOnly

\* lines 158-166: an iteration raises before its assignment (an unhashable
\* key, a comparison that fails); the bare except swallows it
LoopRaise ==
    /\ pc = "loop"
    /\ idx <= Len(poi_types[1])
    /\ failedAt' = "loop"
    /\ pc' = "ret"
    /\ UNCHANGED <<args, bbox, tags, poi_counts, pois_df, poi_types, idx,
                   queries, written, outcome>>
    /\ FvOnly

\* line 158: the loop is exhausted
LoopEnd ==
    /\ pc = "loop"
    /\ idx > Len(poi_types[1])
    /\ pc' = "ret"
    /\ UNCHANGED <<args, bbox, tags, poi_counts, pois_df, poi_types, idx,
                   queries, failedAt, written, outcome>>
    /\ FvOnly

\* line 168: return poi_counts
Return ==
    /\ pc = "ret"
    /\ outcome' = "returned"
    /\ pc' = "done"
    /\ UNCHANGED <<args, bbox, tags, poi_counts, pois_df, poi_types, idx,
                   queries, failedAt, written>>
    /\ FvOnly

\* the caller has the result and the call's locals are gone; the module
\* global poi_types is all that outlives the call
Finish ==
    /\ pc = "done"
    /\ pc' = "idle"
    /\ args' = <<0, 0, 0, None>>
    /\ bbox' = <<0, 0, 0, 0>>
    /\ tags' = <<>>
    /\ poi_counts' = <<>>
    /\ pois_df' = None
    /\ idx' = 0
    /\ queries' = <<>>
    /\ failedAt' = "none"
    /\ written' = {}
    /\ outcome' = "none"
    /\ UNCHANGED poi_types
    /\ FvOnly

FvNext ==
    \/ \E p \in CallPoints, f \in FeatureArgs : Call(p, f)
    \/ \E t \in ProviderTables : QueryOk(t)
    \/ QueryRaise
    \/ Lookup
    \/ LoopIter
    \/ LoopRaise
    \/ LoopEnd
    \/ Return
    \/ Finish

-----------------------------------------------------------------------------
(* access.data and assess.data *)

MaxCols == 2         \* widest frame read from data.csv
MaxRows == 2         \* longest frame read from data.csv

Cells == { None, Some(1) }

\* frames pd.read_csv may produce: at least one column, any number of rows
Frames ==
    UNION { [1..n -> [1..c -> Cells]] : n \in 0..MaxRows, c \in 1..MaxCols }

\* exceptions the chain may meet: FileNotFoundError, or another Exception
ExcKinds == { "FileNotFoundError", "Exception" }

\* what pd.read_csv("data.csv") does
ReadOutcomes ==
    { [kind |-> k, frame |-> <<>>] : k \in ExcKinds }
        \cup { [kind |-> "ok", frame |-> f] : f \in Frames }

\* the except clauses of access.data (lines 123, 127) and assess.data (line 99)
AccessHandlers == { "FileNotFoundError", "Exception" }
AssessHandlers == { "Exception" }

\* whether a try statement with these except clauses catches an exception
\* of this kind; FileNotFoundError is a subclass of Exception
Caught(kind, handlers) == kind \in handlers \/ "Exception" \in handlers

\* df.empty: some axis has length zero
IsEmpty(df) == Len(df) = 0 \/ \A i \in 1..Len(df) : Len(df[i]) = 0

AllNull(row) == \A j \in 1..Len(row) : row[j] = None

NotAllNull(row) == ~AllNull(row)

\* df.dropna(how="all")
DropNaAll(df) == SelectSeq(df, NotAllNull)

\* the read's frame returned without the emptiness check
AccessResultUnchecked(df) == Some(df)

\* access.data, lines 111-121: the value returned after a successful read
AccessResult(df) == IF IsEmpty(df) THEN None ELSE Some(df)

\* assess.data, lines 92-97: the value returned by the assessment step
AssessResult(df) == Some(DropNaAll(df))

DataOnly == UNCHANGED <<fvVars, plotVars>>

DataIdle ==
    /\ dpc = "idle"
    /\ dentry = "none"
    /\ csv = [kind |-> "none", frame |-> <<>>]
    /\ access_ret = None
    /\ assess_ret = None
    /\ dfailed = FALSE
    /\ dprop = FALSE

\* a caller enters access.data() directly, or through assess.data() (line 68)
DataCall(entry) ==
    /\ dpc = "idle"
    /\ dentry' = entry
    /\ dpc' = "read"
    /\ UNCHANGED <<csv, access_ret, assess_ret, dfailed, dprop>>
    /\ DataOnly

\* access.data, lines 107-130: the read, the emptiness check, the handlers
ReadCsv(r) ==
    /\ dpc = "read"
    /\ csv' = r
    /\ IF r.kind = "ok"
       THEN /\ access_ret' = AccessResult(r.frame)
            /\ dprop' = FALSE
            /\ dpc' = "access_done"
       ELSE /\ access_ret' = None
            /\ dprop' = ~Caught(r.kind, AccessHandlers)
            /\ dpc' = IF Caught(r.kind, AccessHandlers)
                      THEN "access_done" ELSE "done"
    /\ UNCHANGED <<dentry, assess_ret, dfailed>>
    /\ DataOnly

\* access.data has returned to a direct caller
AccessReturn ==
    /\ dpc = "access_done"
    /\ dentry = "access"
    /\ dpc' = "done"
    /\ UNCHANGED <<dentry, csv, access_ret, assess_ret, dfailed, dprop>>
    /\ DataOnly

\* assess.data, lines 68-74: the None check on what access.data returned
AssessCheck ==
    /\ dpc = "access_done"
    /\ dentry = "assess"
    /\ IF access_ret = None
       THEN /\ assess_ret' = None
            /\ dpc' = "done"
       ELSE /\ assess_ret' = assess_ret
            /\ dpc' = "assess"
    /\ UNCHANGED <<dentry, csv, access_ret, dfailed, dprop>>
    /\ DataOnly

\* assess.data, lines 78-97: the assessment step runs to its return
AssessOk ==
    /\ dpc = "assess"
    /\ assess_ret' = AssessResult(access_ret[1])
    /\ dpc' = "done"
    /\ UNCHANGED <<dentry, csv, access_ret, dfailed, dprop>>
    /\ DataOnly

\* assess.data, lines 78-102: the assessment step raises
AssessRaise(kind) ==
    /\ dpc = "assess"
    /\ dfailed' = TRUE
    /\ assess_ret' = None
    /\ dprop' = ~Caught(kind, AssessHandlers)
    /\ dpc' = "done"
    /\ UNCHANGED <<dentry, csv, access_ret>>
    /\ DataOnly

\* the caller has the result; the chain's locals are gone
DataFinish ==
    /\ dpc = "done"
    /\ dpc' = "idle"
    /\ dentry' = "none"
    /\ csv' = [kind |-> "none", frame |-> <<>>]
    /\ access_ret' = None
    /\ assess_ret' = None
    /\ dfailed' = FALSE
    /\ dprop' = FALSE
    /\ DataOnly

DataNext ==
    \/ \E e \in { "access", "assess" } : DataCall(e)
    \/ \E r \in ReadOutcomes : ReadCsv(r)
    \/ AccessReturn
    \/ AssessCheck
    \/ AssessOk
    \/ \E k \in ExcKinds : AssessRaise(k)
    \/ DataFinish

-----------------------------------------------------------------------------
(* access.plot_city_map and access.plot_city_map_with_points *)

\* (place_name, latitude, longitude, boxing_size) of a call
PlotArgs == { <<"Nyeri, Kenya", 0, 37, 2>>, <<"Nairobi, Kenya", -1, 36, 4>>,
              <<"Kisumu, Kenya", 0, 34, 2>> }

PlotFns == { "plot_city_map", "plot_city_map_with_points" }

\* the statements of the try block that call into a library, in order
PlotSteps(fn) ==
    IF fn = "plot_city_map"
    THEN << "bbox", "graph_from_bbox", "geocode_to_gdf", "graph_to_gdfs",
            "features_buildings", "features_pois", "subplots", "plot_layers",
            "set_axes", "show" >>
    ELSE << "bbox", "graph_from_bbox", "geocode_to_gdf", "graph_to_gdfs",
            "features_buildings", "features_pois", "points_gdf", "subplots",
            "plot_layers", "plot_points", "set_axes", "show" >>

\* lines 205 and 305: what the try block returns once every step is through
SuccessReturn(fig) == None

\* lines 210 and 310: what the except clause returns
FailureReturn(fig) == None

PlotOnly == UNCHANGED <<fvVars, dataVars>>

PlotIdle ==
    /\ ppc = "idle"
    /\ pfn = "none"
    /\ pargs = <<>>
    /\ pbbox = <<0, 0, 0, 0>>
    /\ pstep = 0
    /\ pfig = None
    /\ praised = FALSE
    /\ pret = None

PlotCall(fn, a) ==
    /\ ppc = "idle"
    /\ pfn' = fn
    /\ pargs' = a
    /\ pstep' = 1
    /\ ppc' = "run"
    /\ UNCHANGED <<pbbox, pfig, praised, pret>>
    /\ PlotOnly

\* one statement of the try block completes
PlotStepOk ==
    /\ ppc = "run"
    /\ pstep <= Len(PlotSteps(pfn))
    /\ pbbox' = IF PlotSteps(pfn)[pstep] = "bbox"
                THEN BoundingBox(pargs[2], pargs[3], pargs[4]) ELSE pbbox
    /\ pfig' = IF PlotSteps(pfn)[pstep] = "subplots" THEN Some("figure") ELSE pfig
    /\ pstep' = pstep + 1
    /\ UNCHANGED <<ppc, pfn, pargs, praised, pret>>
    /\ PlotOnly

\* one statement of the try block raises; except Exception returns
PlotStepRaise ==
    /\ ppc = "run"
    /\ pstep <= Len(PlotSteps(pfn))
    /\ praised' = TRUE
    /\ pret' = FailureReturn(pfig)
    /\ ppc' = "done"
    /\ UNCHANGED <<pfn, pargs, pbbox, pstep, pfig>>
    /\ PlotOnly

\* the return statement that ends the try block
PlotReturn ==
    /\ ppc = "run"
    /\ pstep > Len(PlotSteps(pfn))
    /\ pret' = SuccessReturn(pfig)
    /\ ppc' = "done"
    /\ UNCHANGED <<pfn, pargs, pbbox, pstep, pfig, praised>>
    /\ PlotOnly

PlotFinish ==
    /\ ppc = "done"
    /\ ppc' = "idle"
    /\ pfn' = "none"
    /\ pargs' = <<>>
    /\ pbbox' = <<0, 0, 0, 0>>
    /\ pstep' = 0
    /\ pfig' = None
    /\ praised' = FALSE
    /\ pret' = None
    /\ PlotOnly

PlotNext ==
    \/ \E fn \in PlotFns, a \in PlotArgs : PlotCall(fn, a)
    \/ PlotStepOk
    \/ PlotStepRaise
    \/ PlotReturn
    \/ PlotFinish

-----------------------------------------------------------------------------
(* Specifications *)

\* get_feature_vector alone, for every binding of the module global
InitFV == FvInit /\ DataIdle /\ PlotIdle
SpecFV == InitFV /\ [][FvNext]_vars

\* the other subsystems do not touch poi_types
FvIdle == FvInit /\ poi_types = None

InitData == FvIdle /\ DataIdle /\ PlotIdle
SpecData == InitData /\ [][DataNext]_vars

InitPlot == FvIdle /\ DataIdle /\ PlotIdle
SpecPlot == InitPlot /\ [][PlotNext]_vars

-----------------------------------------------------------------------------
(* Properties of get_feature_vector, checked under SpecFV *)

\* the request of the running call
Features == args[4][1]

\* the composite key of a requested pair as the specification words it:
\* key for a pair whose value is None, key:value for a pair with a value
SpecKey(key, value) ==
    IF value = None THEN key ELSE key \o ":" \o value[1]

\* the count the specification asks for a requested pair over a table
SpecCount(df, key, value) ==
    IF key \notin df.columns THEN 0
    ELSE IF value = None
         THEN Cardinality({ i \in 1..Len(df.rows) : Len(df.rows[i][key]) = 1 })
         ELSE Cardinality({ i \in 1..Len(df.rows) : df.rows[i][key] = value })

Returned == pc = "done" /\ outcome = "returned"

AllZero(d) == \A k \in DOMAIN d : d[k] = 0

\* every requested pair holds its count over the fetched table
FullyCounted ==
    \A i \in 1..Len(Features) :
        LET key == Features[i][1]
            value == Features[i][2]
        IN  /\ SpecKey(key, value) \in DOMAIN poi_counts
            /\ poi_counts[SpecKey(key, value)] = SpecCount(pois_df[1], key, value)

\* C1: when the provider query succeeds, the count returned under each
\* requested pair's composite key is the number of rows whose column key
\* equals the value (value set), the number of rows whose column key is
\* non-null (value None), and 0 when the table has no such column.
C1_CountsMatchTable ==
    (Returned /\ pois_df # None) => FullyCounted

\* values are None or non-empty strings
PlainValues(f) == \A i \in 1..Len(f) : f[i][2] # Some("")

\* C2: for a non-empty request whose values are None or non-empty strings,
\* the key set of the returned mapping is exactly the set of composite keys
\* of the request, on every provider outcome.
C2_KeySetIsRequest ==
    (Returned /\ Features # <<>> /\ PlainValues(Features)) =>
        DOMAIN poi_counts =
            { SpecKey(Features[i][1], Features[i][2]) : i \in 1..Len(Features) }

\* the counting loop runs over the request itself, or not at all
LoopOverRequest == poi_types = None \/ poi_types = Some(Features)

\* C3: if the provider query or any step of counting raises, the call still
\* returns normally and every count of the returned mapping is zero (stated
\* for the calls whose counting loop runs over the request itself).
C3_FailureGivesZeros ==
    (pc = "done" /\ failedAt # "none" /\ LoopOverRequest) =>
        (outcome = "returned" /\ AllZero(poi_counts))

\* C4: the returned mapping is all-zero or fully counted, never counts for
\* some pairs and fallback zeros for the others, wherever the failure falls
\* (stated for the calls whose counting loop runs over the request itself,
\* and requests whose values are None or non-empty strings).
C4_NeverPartial ==
    (Returned /\ LoopOverRequest /\ PlainValues(Features)) => (AllZero(poi_counts) \/ (pois_df # None /\ FullyCounted))

\* C5: the returned mapping has exactly one entry per distinct requested
\* (key, value) pair, on success and on failure.
C5_OneEntryPerPair ==
    Returned =>
        Cardinality(DOMAIN poi_counts) =
            Cardinality({ Features[i] : i \in 1..Len(Features) })

\* C6: when a request holds both (key, None) and (key, v) with v set, the
\* count returned under key:v is at most the count returned under key, on
\* every outcome (stated for the calls whose counting loop runs over the
\* request itself).
C6_FilteredAtMostAny ==
    (Returned /\ LoopOverRequest) =>
        \A i, j \in 1..Len(Features) :
            ( /\ Features[i][1] = Features[j][1]
              /\ Features[i][2] = None
              /\ Truthy(Features[j][2]) ) =>
                LET any == SpecKey(Features[i][1], Features[i][2])
                    one == SpecKey(Features[j][1], Features[j][2])
                IN  /\ any \in DOMAIN poi_counts
                    /\ one \in DOMAIN poi_counts
                    /\ poi_counts[one] <= poi_counts[any]

\* the box is the square of edge box_size_km/111 degrees about the centre,
\* laid out as (west, south, east, north)
BoxAbout(b, latitude, longitude, box_size_km) ==
    /\ b[1] + b[3] = 2 * longitude * DegUnits
    /\ b[3] - b[1] = 2 * box_size_km
    /\ b[2] + b[4] = 2 * latitude * DegUnits
    /\ b[4] - b[2] = 2 * box_size_km

\* C7: a call that gets past building its request structures issues exactly
\* one provider query, for the box derived from its own centre and size,
\* before any counting and with no retry on either path; a call that has
\* not reached the query, or never builds its structures, has issued none.
C7_OneQueryPerCall ==
    /\ pc \in {"lookup", "loop", "ret"} \/ Returned =>
           /\ Len(queries) = 1
           /\ BoxAbout(queries[1].bbox, args[1], args[2], args[3])
    /\ pc \in {"idle", "try"} \/ outcome = "propagated" => queries = <<>>
    /\ (idx > 0 \/ written # {} \/ pois_df # None) => Len(queries) = 1

\* a call with a non-empty request has failed in its counting loop after an
\* assignment, and has returned having issued its one query
C7_Witness ==
    /\ Returned
    /\ failedAt = "loop"
    /\ written # {}
    /\ Len(queries) = 1
    /\ Features # <<>>
    /\ args[1] = -1

\* C9: the tag structure passed to the provider holds exactly the tag keys
\* of the request, each mapped to True, and never a composite key:value.
C9_TagsAreKeys ==
    queries # <<>> =>
        /\ DOMAIN queries[1].tags = { Features[i][1] : i \in 1..Len(Features) }
        /\ \A k \in DOMAIN queries[1].tags : queries[1].tags[k] = TRUE

-----------------------------------------------------------------------------
(* Properties of the plotting functions, checked under SpecPlot *)

\* C8: the plotting functions return the figure when every step succeeds,
\* and None only when some step raised.
C8_FigureOnSuccess ==
    ppc = "done" =>
        /\ praised => pret = None
        /\ ~praised => (pfig # None /\ pret = pfig)

-----------------------------------------------------------------------------
(* Properties of the data-loading chain, checked under SpecData *)

\* rows of df that hold some non-null cell
KeptRows(df) ==
    { i \in 1..Len(df) : \E j \in 1..Len(df[i]) : Len(df[i][j]) = 1 }

\* out is df without its completely empty rows, in order
IsCleaned(out, df) ==
    /\ Len(out) = Cardinality(KeptRows(df))
    /\ \A i \in KeptRows(df) :
           out[Cardinality({ k \in KeptRows(df) : k <= i })] = df[i]

\* C10: no exception leaves the data-loading chain; access.data() returns
\* the frame exactly when the read succeeded and the frame is non-empty,
\* else None; assess.data() returns None when access.data() returned None
\* or the assessment step raised, else the frame without its completely
\* empty rows.
C10_DataChain ==
    /\ ~dprop
    /\ dpc \in {"access_done", "assess", "done"} =>
           IF csv.kind = "ok" /\ Len(csv.frame) > 0
           THEN access_ret = Some(csv.frame)
           ELSE access_ret = None
    /\ (dpc = "done" /\ dentry = "assess") =>
           IF access_ret = None \/ dfailed
           THEN assess_ret = None
           ELSE /\ assess_ret # None
                /\ IsCleaned(assess_ret[1], access_ret[1])

\* assess.data() has returned a frame shorter than the one read
C10_Witness ==
    /\ dpc = "done"
    /\ dentry = "assess"
    /\ assess_ret # None
    /\ Len(assess_ret[1]) = 1
    /\ Len(access_ret[1]) = 2

====
